---- MODULE Spec2Model ----
(***************************************************************************)
(* Model of BaselineWalkingController's trajectory functions               *)
(* (Func / PiecewiseFunc / Polynomial / Constant) and of the DDP-ZMP       *)
(* centroidal manager (CentroidalManagerDdpZmp), and of the FSM state that  *)
(* brings the managers up (InitialState).                                  *)
(*                                                                         *)
(* Conventions.  A double is modelled by an integer; every input set below *)
(* holds integers only, on which the double arithmetic of the code         *)
(* (+, *, std::pow with a non-negative integer exponent, the truncating    *)
(* static_cast<int>) is exact.  The value type T of the functions is       *)
(* modelled by the integers (a one-dimensional vector), its setZero() by 0.*)
(***************************************************************************)
EXTENDS Integers, Sequences, FiniteSets, TLC

VARIABLES
  \* ---- Polynomial<T, Order> (one object and the last call made on it)
  poly,           \* [order, coeff, t0]: Order, coeff_ (1-based here), t0_
  polyCall,       \* the last call on poly and what it returned
  \* ---- PiecewiseFunc<T>
  funcs_,         \* std::map<double, shared_ptr<Func>>: sequence sorted by key
  tLowerLimit_,   \* lower limit of the domain
  appended,       \* history: the appendFunc calls since the last clearFuncs
  pwCall,         \* the last call on the PiecewiseFunc and its outcome
  \* ---- CentroidalManagerDdpZmp
  config_,        \* Configuration: horizonDuration, horizonDt, ddpMaxIter
  ddp_,           \* shared_ptr<CCC::DdpZmp>: NoDdp (null) or the solver's state
  mpcCom_,        \* CoM position handed to the MPC (x, y)
  robotMass_,     \* robot mass
  plannedZmp_,    \* published ZMP (x, y, z)
  plannedForceZ_, \* published vertical force
  mpcCall,        \* the last call on the manager, if runMpc, and what it did
  afterReset,     \* history: no runMpc has run since the last reset()
  cfgAtLastTick,  \* history: <<the configuration at the last runMpc tick>>, or <<>>
  \* ---- InitialState and the parts of the controller it acts on
  phase_,         \* InitialState::phase_
  stateConfig,    \* InitialState's config_: has "configs"? has "autoStartTime"? its value
  gui,            \* the elements present in the GUI category {"BWC"}
  solverTasks,    \* the tasks added to the QP solver
  footManagerResets,    \* number of footManager_->reset() calls
  enableManagerUpdate_, \* BaselineWalkingController::enableManagerUpdate_
  loggerAdds,     \* number of times the managers' addToLogger pair has run
  ctlTime,        \* ctl().t()
  turn,           \* position in the control cycle: "controller" part or "state" part
  managerUpdates, \* history: control cycles that updated the managers
  setupRuns,      \* history: executions of the phase-1 block of run()
  tickWithoutSolver, \* history: a manager update found the centroidal manager not reset
  initCall        \* the last step of the InitialState component and what it did

polyVars == <<poly, polyCall>>
pwVars == <<funcs_, tLowerLimit_, appended, pwCall>>
mpcVars == <<config_, ddp_, mpcCom_, robotMass_, plannedZmp_, plannedForceZ_, mpcCall,
             afterReset, cfgAtLastTick>>
initVars == <<phase_, stateConfig, gui, solverTasks, footManagerResets,
              enableManagerUpdate_, loggerAdds, ctlTime, turn, managerUpdates,
              setupRuns, tickWithoutSolver, initCall>>
vars == <<poly, polyCall, funcs_, tLowerLimit_, appended, pwCall,
          config_, ddp_, mpcCom_, robotMass_, plannedZmp_, plannedForceZ_, mpcCall,
          afterReset, cfgAtLastTick,
          phase_, stateConfig, gui, solverTasks, footManagerResets,
          enableManagerUpdate_, loggerAdds, ctlTime, turn, managerUpdates,
          setupRuns, tickWithoutSolver, initCall>>

NoCall == [op |-> "none"]
NoValue == "none"

(***************************************************************************)
(* Bounds of the model                                                     *)
(***************************************************************************)
MaxOrder == 3        \* polynomial orders 0..MaxOrder
MaxArg == 3          \* arguments t of a polynomial: 0..MaxArg
Coeffs == {-1, 1, 2, 3}
Offsets == {0, 1}    \* values of t0_
PolyArgs == 0..MaxArg
DerivOrders == 0..(MaxOrder + 1)

(***************************************************************************)
(* Polynomial<T, Order>                                                    *)
(***************************************************************************)
\* std::pow(b, e) for an integer b and an integer e >= 0
RECURSIVE Pow(_, _)
Pow(b, e) == IF e = 0 THEN 1 ELSE b * Pow(b, e - 1)

\* Polynomial::operator(): the loop "for(i = 0; i < Order; i++) ret += coeff_[i+1] * pow(t - t0_, i+1)"
\* from iteration i on, ret being the value accumulated so far (coeff_[i] is p.coeff[i+1])
RECURSIVE EvalLoop(_, _, _, _)
EvalLoop(p, t, i, ret) ==
  IF i < p.order
    THEN EvalLoop(p, t, i + 1, ret + p.coeff[i + 2] * Pow(t - p.t0, i + 1))
    ELSE ret

PolyEvalNoOffset(p, t) == EvalLoop([p EXCEPT !.t0 = 0], t, 0, p.coeff[1])
PolyEval(p, t) == EvalLoop(p, t, 0, p.coeff[1])

\* Constant::operator()(t): Polynomial<T, 0>::operator()(t)
ConstantEval(c, t) == PolyEval(c, t)

\* the factor of "term *= (i + 1 + derivative_order - j)"
TermFactorOffByOne(i, k, j) == i + k - j
TermFactor(i, k, j) == i + 1 + k - j

\* the factor of "ret *= (derivative_order - j)"
LeadFactor(k, j) == k - j

\* "for(j = 0; j < derivative_order - 1; j++) ret *= (derivative_order - j)" from iteration j on
RECURSIVE LeadScale(_, _, _)
LeadScale(ret, k, j) ==
  IF j < k - 1 THEN LeadScale(ret * LeadFactor(k, j), k, j + 1) ELSE ret

\* "for(j = 0; j < derivative_order; j++) term *= (i + 1 + derivative_order - j)" from iteration j on
RECURSIVE TermScale(_, _, _, _)
TermScale(term, i, k, j) ==
  IF j < k THEN TermScale(term * TermFactor(i, k, j), i, k, j + 1) ELSE term

\* "for(i = 0; i < Order - derivative_order; i++) { term = ...; ret += term; }" from iteration i on
RECURSIVE DerivLoop(_, _, _, _, _)
DerivLoop(p, t, k, i, ret) ==
  IF i < p.order - k
    THEN DerivLoop(p, t, k, i + 1,
                   ret + TermScale(p.coeff[i + 2 + k] * Pow(t - p.t0, i + 1), i, k, 0))
    ELSE ret

\* "T ret; ret.setZero(); return ret;"
ZeroNotSet(p) == p.coeff[1]
ZeroOfT(p) == 0

\* Polynomial::derivative(t, derivative_order), derivative_order >= 0
PolyDerivative(p, t, k) ==
  IF k > p.order
    THEN ZeroOfT(p)
    ELSE DerivLoop(p, t, k, 0, LeadScale(p.coeff[k + 1], k, 0))

\* the Polynomial objects of the model: every order, coefficient array and offset
Polys ==
  UNION { { [order |-> n, coeff |-> c, t0 |-> o] : c \in [1..(n + 1) -> Coeffs], o \in Offsets }
          : n \in 0..MaxOrder }

\* Polynomial(coeff, t0): the constructor
PolyInit == poly \in Polys /\ polyCall = NoCall

\* a call of operator()(t)
PolyCallEval ==
  \E t \in PolyArgs :
    /\ polyCall' = [op |-> "eval", t |-> t, k |-> 0,
                    value |-> IF poly.order = 0 THEN ConstantEval(poly, t) ELSE PolyEval(poly, t)]
    /\ UNCHANGED <<poly, pwVars, mpcVars, initVars>>

\* a call of derivative(t, k)
PolyCallDerivative ==
  \E t \in PolyArgs, k \in DerivOrders :
    /\ polyCall' = [op |-> "derivative", t |-> t, k |-> k, value |-> PolyDerivative(poly, t, k)]
    /\ UNCHANGED <<poly, pwVars, mpcVars, initVars>>

(***************************************************************************)
(* PiecewiseFunc<T>                                                        *)
(***************************************************************************)
MaxT == 3            \* keys and lower limits: 0..MaxT
MaxAppends == 2      \* appendFunc calls between two clearFuncs calls
Times == 0..MaxT
EvalTimes == (-1)..(MaxT + 1)
PwOrders == {1, 2}   \* derivative orders asked of a PiecewiseFunc

\* std::numeric_limits<double>::lowest(), below every time of the model
Lowest == -1000

\* Constant(value): Polynomial<T, 0> with the one coefficient value and t0 = 0.0
ConstantFunc(v) == [order |-> 0, coeff |-> <<v>>, t0 |-> 0]

\* the Func objects handed to appendFunc
SegFuncs == {ConstantFunc(5), ConstantFunc(9), [order |-> 1, coeff |-> <<1, 2>>, t0 |-> 0]}

\* whether the map holds key t
HasKey(m, t) == \E i \in 1..Len(m) : m[i].key = t

\* std::map::insert of the pair (t, f): no effect when the key is present,
\* else the pair is put at its place in the order of the keys
MapInsertOverwrite(m, t, f) ==
  LET n == Cardinality({i \in 1..Len(m) : m[i].key < t})
      rest == IF HasKey(m, t) THEN SubSeq(m, n + 2, Len(m)) ELSE SubSeq(m, n + 1, Len(m))
  IN SubSeq(m, 1, n) \o <<[key |-> t, func |-> f]>> \o rest
MapInsert(m, t, f) ==
  IF HasKey(m, t)
    THEN m
    ELSE LET n == Cardinality({i \in 1..Len(m) : m[i].key < t})
         IN SubSeq(m, 1, n) \o <<[key |-> t, func |-> f]>> \o SubSeq(m, n + 1, Len(m))

\* std::map::upper_bound(t): the first element whose key is > t
RECURSIVE UpperBoundFrom(_, _, _)
UpperBoundFrom(m, t, i) ==
  IF i > Len(m) \/ m[i].key > t THEN i ELSE UpperBoundFrom(m, t, i + 1)
UpperBound(m, t) == UpperBoundFrom(m, t, 1)

\* std::map::lower_bound(t): the position of the first element whose key is not
\* less than t, Len(m) + 1 standing for end()
RECURSIVE LowerBoundFrom(_, _, _)
LowerBoundFrom(m, t, i) ==
  IF i > Len(m) \/ ~(m[i].key < t) THEN i ELSE LowerBoundFrom(m, t, i + 1)
LowerBound(m, t) == LowerBoundFrom(m, t, 1)

\* the condition of checkArg on a map with at least one element
OutOfRangeExclusive(m, lower, t) == t < lower \/ ~(t < m[Len(m)].key)
OutOfRange(m, lower, t) == t < lower \/ m[Len(m)].key < t

\* what a call may do once it has dereferenced rbegin() of an empty map or the
\* end() iterator: undefined behaviour, any of these
UbOutcomes == {"segfault", "out_of_domain", "garbage"}

\* operator()(t) (op = "eval") and derivative(t, order): checkArg, lower_bound, dispatch
PwResult(op, t, order, outcome, it) ==
  [op |-> op, t |-> t, order |-> order, outcome |-> outcome,
   key |-> IF outcome = "ok" THEN funcs_[it].key ELSE NoValue,
   func |-> IF outcome = "ok" THEN funcs_[it].func ELSE NoValue,
   value |-> IF outcome # "ok" THEN NoValue
             ELSE IF op = "eval" THEN PolyEval(funcs_[it].func, t)
             ELSE PolyDerivative(funcs_[it].func, t, order)]

PwDispatch(op, t, order) ==
  IF funcs_ = <<>>
    THEN \E o \in UbOutcomes : pwCall' = PwResult(op, t, order, o, 0)
    ELSE IF OutOfRange(funcs_, tLowerLimit_, t)
      THEN pwCall' = PwResult(op, t, order, "out_of_domain", 0)
      ELSE LET it == LowerBound(funcs_, t)
           IN IF it > Len(funcs_)
                THEN \E o \in UbOutcomes : pwCall' = PwResult(op, t, order, o, 0)
                ELSE pwCall' = PwResult(op, t, order, "ok", it)

PwEval ==
  \E t \in EvalTimes :
    /\ PwDispatch("eval", t, 0)
    /\ UNCHANGED <<funcs_, tLowerLimit_, appended, polyVars, mpcVars, initVars>>

PwDerivative ==
  \E t \in EvalTimes, order \in PwOrders :
    /\ PwDispatch("derivative", t, order)
    /\ UNCHANGED <<funcs_, tLowerLimit_, appended, polyVars, mpcVars, initVars>>

\* std::numeric_limits<double>::max(), above every time of the model
DblMax == 1000

\* domainLowerLimit()
DomainLowerLimit == tLowerLimit_

\* domainUpperLimit(): the key of rbegin(), or max() for an empty map
DomainUpperLimitFirstKey == IF funcs_ = <<>> THEN DblMax ELSE funcs_[1].key
DomainUpperLimit == IF funcs_ = <<>> THEN DblMax ELSE funcs_[Len(funcs_)].key

\* clearFuncs()
ClearFuncs ==
  /\ funcs_' = <<>>
  /\ tLowerLimit_' = Lowest
  /\ appended' = <<>>
  /\ pwCall' = [op |-> "clear", before |-> funcs_, lowerBefore |-> tLowerLimit_]
  /\ UNCHANGED <<polyVars, mpcVars, initVars>>

\* appendFunc(t, func): returns void, throws nothing
AppendFunc ==
  \E t \in Times, f \in SegFuncs :
    /\ Len(appended) < MaxAppends
    /\ funcs_' = MapInsert(funcs_, t, f)
    /\ appended' = Append(appended, [t |-> t, f |-> f])
    /\ pwCall' = [op |-> "append", t |-> t, f |-> f, outcome |-> "ok", before |-> funcs_]
    /\ UNCHANGED <<tLowerLimit_, polyVars, mpcVars, initVars>>

\* setDomainLowerLimit(t)
SetDomainLowerLimit ==
  \E t \in Times :
    /\ tLowerLimit_' = t
    /\ pwCall' = [op |-> "setDomainLowerLimit", t |-> t]
    /\ UNCHANGED <<funcs_, appended, polyVars, mpcVars, initVars>>

\* PiecewiseFunc(): no segment, tLowerLimit_ at its default
PwInit == funcs_ = <<>> /\ tLowerLimit_ = Lowest /\ appended = <<>> /\ pwCall = NoCall

(***************************************************************************)
(* CentroidalManagerDdpZmp                                                 *)
(*                                                                         *)
(* The DDP solver (CCC::DdpZmp, nmpc_ddp) is an external library: a solve  *)
(* returns any planned data and leaves any input sequence of               *)
(* horizon_steps entries in its control data; a newly made solver holds an *)
(* empty input sequence.                                                   *)
(***************************************************************************)
MaxDuration == 2     \* horizonDuration: -1..MaxDuration
Durations == (-1)..MaxDuration
Dts == {1, 2}        \* horizonDt
MaxIters == {1}      \* ddpMaxIter
Coms == {<<0, 0>>, <<1, -1>>}   \* mpcCom_ (x, y)
Masses == {2}        \* robotMass_
Seeds == {1, 2}      \* the solver's choice of the input sequence it returns

\* CCC::constants::g = 9.80665, in units of 1e-5 m/s^2
G == 980665

Configs == [horizonDuration : Durations, horizonDt : Dts, ddpMaxIter : MaxIters]

\* ddp_ before the first reset(): a null pointer, the other fields standing for nothing
NoDdp == [null |-> TRUE, horizon_steps |-> 0, u_list |-> <<>>, max_iter |-> 0]
IsNull(d) == d.null

\* the fields of a runMpc record that a call without a solve leaves empty
NoPlanned == [zmp |-> <<0, 0>>, force_z |-> 0]

\* static_cast<int>(horizonDuration / horizonDt): the quotient truncated toward zero
HorizonSteps(cfg) ==
  IF cfg.horizonDuration >= 0
    THEN cfg.horizonDuration \div cfg.horizonDt
    ELSE -((-cfg.horizonDuration) \div cfg.horizonDt)

\* InputDimVector(mpcCom_.x(), mpcCom_.y(), robotMass_ * CCC::constants::g)
NominalInputNoGravity(com, mass) == <<com[1], com[2], mass>>
NominalInput(com, mass) == <<com[1], com[2], mass * G>>

\* "u_list.size() == horizon_steps": the int is converted to size_t, so that a
\* negative horizon_steps equals no size
SizeEquals(u_list, h) == h >= 0 /\ Len(u_list) = h

\* initialParam.u_list as runMpc builds it (h >= 0 where assign returns)
WarmStartNoCheck(u_list, h, com, mass) == u_list
WarmStart(u_list, h, com, mass) ==
  IF SizeEquals(u_list, h)
    THEN u_list
    ELSE [i \in 1..h |-> NominalInput(com, mass)]

\* "plannedZmp_ << plannedData.zmp, 0.0"
PublishedZmpForceInZ(pd) == <<pd.zmp[1], pd.zmp[2], pd.force_z>>
PublishedZmp(pd) == <<pd.zmp[1], pd.zmp[2], 0>>

\* the planned data a solve may return
PlannedData == {[zmp |-> <<1, 2>>, force_z |-> 7], [zmp |-> <<-1, 3>>, force_z |-> 9]}

\* what a solve over h steps may return and leave in the solver's control data
SolverResults(h) ==
  { [u_list |-> [i \in 1..h |-> <<s, i, s + i>>], planned |-> pd, converged |-> c]
    : s \in Seeds, pd \in PlannedData, c \in BOOLEAN }

\* the process has not crashed
Alive == IF mpcCall.op = "runMpc" THEN mpcCall.outcome # "segfault" ELSE TRUE

\* CentroidalManagerDdpZmp(ctlPtr, mcRtcConfig): config_ loaded, ddp_ null
MpcInit ==
  /\ config_ \in Configs
  /\ ddp_ = NoDdp
  /\ mpcCom_ = <<0, 0>>
  /\ robotMass_ \in Masses
  /\ plannedZmp_ = <<0, 0, 0>>
  /\ plannedForceZ_ = 0
  /\ mpcCall = NoCall
  /\ afterReset = FALSE
  /\ cfgAtLastTick = <<>>

\* reset(): a new solver with the configured step count and max_iter
Reset ==
  /\ Alive
  /\ ddp_' = [null |-> FALSE, horizon_steps |-> HorizonSteps(config_), u_list |-> <<>>,
              max_iter |-> config_.ddpMaxIter]
  /\ afterReset' = TRUE
  /\ mpcCall' = NoCall
  /\ UNCHANGED <<config_, mpcCom_, robotMass_, plannedZmp_, plannedForceZ_, cfgAtLastTick,
                 polyVars, pwVars,
                 initVars>>

\* the control cycle's update of the CoM estimate handed to the MPC
UpdateCom ==
  \E com \in Coms :
    /\ Alive
    /\ mpcCom_' = com
    /\ mpcCall' = NoCall
    /\ UNCHANGED <<config_, ddp_, robotMass_, plannedZmp_, plannedForceZ_, afterReset,
                   cfgAtLastTick, polyVars, pwVars,
                 initVars>>

\* the log records runMpc writes: it calls no mc_rtc::log function
RunMpcLog == <<>>

\* the record of a runMpc call
MpcRecord(outcome, warm, planned, converged) ==
  [op |-> "runMpc", outcome |-> outcome,
   hadDdp |-> ~IsNull(ddp_),
   solverInvoked |-> outcome = "solved",
   horizon |-> ddp_.horizon_steps,
   prevU |-> ddp_.u_list,
   warm |-> warm, planned |-> planned, converged |-> converged,
   com |-> mpcCom_, mass |-> robotMass_,
   prevZmp |-> plannedZmp_, prevForceZ |-> plannedForceZ_,
   first |-> afterReset,
   cfgBefore |-> cfgAtLastTick, cfg |-> config_,
   logged |-> RunMpcLog]

\* runMpc() with ddp_ null: "ddp_->ddp_solver_" dereferences a null pointer, which
\* is undefined: the process crashes, or goes on with anything in the plan
RunMpcWithoutSolver ==
  /\ Alive
  /\ IsNull(ddp_)
  /\ \/ /\ mpcCall' = MpcRecord("segfault", <<>>, NoPlanned, FALSE)
        /\ UNCHANGED <<plannedZmp_, plannedForceZ_>>
     \/ \E pd \in PlannedData :
          /\ mpcCall' = MpcRecord("corrupt", <<>>, NoPlanned, FALSE)
          /\ plannedZmp_' = <<pd.zmp[1], pd.zmp[2], pd.force_z>>
          /\ plannedForceZ_' = pd.force_z
  /\ UNCHANGED <<ddp_, afterReset, cfgAtLastTick>>
  /\ UNCHANGED <<config_, mpcCom_, robotMass_, polyVars, pwVars,
                 initVars>>

\* runMpc() with a solver whose horizon_steps is negative and so equals no size:
\* u_list.assign(count, ...) gets the count converted to size_t, above max_size(),
\* and throws std::length_error before the solver is called
RunMpcAssignThrows ==
  /\ Alive
  /\ ~IsNull(ddp_)
  /\ ~SizeEquals(ddp_.u_list, ddp_.horizon_steps)
  /\ ddp_.horizon_steps < 0
  /\ mpcCall' = MpcRecord("length_error", <<>>, NoPlanned, FALSE)
  /\ afterReset' = FALSE
  /\ cfgAtLastTick' = <<config_>>
  /\ UNCHANGED <<ddp_, plannedZmp_, plannedForceZ_>>
  /\ UNCHANGED <<config_, mpcCom_, robotMass_, polyVars, pwVars,
                 initVars>>

\* runMpc() that reaches planOnce: the warm start, the solve, the published plan
RunMpcSolve ==
  /\ Alive
  /\ ~IsNull(ddp_)
  /\ SizeEquals(ddp_.u_list, ddp_.horizon_steps) \/ ddp_.horizon_steps >= 0
  /\ LET warm == WarmStart(ddp_.u_list, ddp_.horizon_steps, mpcCom_, robotMass_)
     IN \E r \in SolverResults(ddp_.horizon_steps) :
          /\ ddp_' = [ddp_ EXCEPT !.u_list = r.u_list]
          /\ plannedZmp_' = PublishedZmp(r.planned)
          /\ plannedForceZ_' = r.planned.force_z
          /\ mpcCall' = MpcRecord("solved", warm, r.planned, r.converged)
  /\ afterReset' = FALSE
  /\ cfgAtLastTick' = <<config_>>
  /\ UNCHANGED <<config_, mpcCom_, robotMass_, polyVars, pwVars,
                 initVars>>

\* runMpc()
RunMpc == RunMpcWithoutSolver \/ RunMpcAssignThrows \/ RunMpcSolve

\* the manager that stands by while another object is exercised
MpcIdle ==
  /\ config_ = [horizonDuration |-> 0, horizonDt |-> 1, ddpMaxIter |-> 1]
  /\ ddp_ = NoDdp /\ mpcCom_ = <<0, 0>> /\ robotMass_ = 0
  /\ plannedZmp_ = <<0, 0, 0>> /\ plannedForceZ_ = 0 /\ mpcCall = NoCall
  /\ afterReset = FALSE /\ cfgAtLastTick = <<>>

(***************************************************************************)
(* InitialState (states/InitialState.cpp) and the control cycle around it  *)
(***************************************************************************)
MaxTime == 5        \* the control cycles explored (ctl().t() advances by one per cycle)
MaxAutoStart == 2   \* the largest configured autoStartTime

\* the state's configuration: without "configs", with "configs" but without
\* "autoStartTime", or with an autoStartTime
StateConfigs ==
  {[configs |-> FALSE, auto |-> FALSE, time |-> 0],
   [configs |-> TRUE, auto |-> FALSE, time |-> 0]}
    \cup {[configs |-> TRUE, auto |-> TRUE, time |-> a] : a \in 0..MaxAutoStart}

\* the condition of the auto start: both keys present and t strictly later
AutoStart(c, t) == c.configs /\ c.auto /\ t > c.time

\* the tasks the phase-1 block resets and adds to the solver
InitialTasks == {"CoMTask", "BaseOriTask", "FootTask_Left", "FootTask_Right"}

\* the GUI category {"BWC"} after the phase-1 block: the Start button removed,
\* the managers' elements added
GuiAfterSetupKeepsStart(g) == g \cup {"FootManager", "CentroidalManager"}
GuiAfterSetup(g) == (g \ {"Start"}) \cup {"FootManager", "CentroidalManager"}

\* the phases that reach the else-branch of run(), with a variant that lets
\* every phase reach it
LoggerPhaseAny(p) == TRUE
LoggerPhase(p) == p # 0 /\ p # 1

RunRecord(phase, ret, setup, logger, auto) ==
  [op |-> "run", phaseAtCall |-> phase, ret |-> ret, didSetup |-> setup,
   didLogger |-> logger, autoStarted |-> auto, time |-> ctlTime,
   updatesBefore |-> managerUpdates, setupsBefore |-> setupRuns]

\* start(): phase 0, the Start button in the GUI; the controller has not
\* enabled the manager update, and neither manager has been reset
InitialStart ==
  /\ phase_ = 0
  /\ stateConfig \in StateConfigs
  /\ gui = {"Start"}
  /\ solverTasks = {}
  /\ footManagerResets = 0
  /\ enableManagerUpdate_ = FALSE
  /\ loggerAdds = 0
  /\ ctlTime = 0
  /\ turn = "controller"
  /\ managerUpdates = 0
  /\ setupRuns = 0
  /\ tickWithoutSolver = FALSE
  /\ initCall = NoCall

\* the callback of the Start button, run when the button is pressed
PressStart ==
  /\ "Start" \in gui
  /\ phase_' = 1
  /\ initCall' = [op |-> "press", phaseAtCall |-> phase_]
  /\ UNCHANGED <<stateConfig, gui, solverTasks, footManagerResets, enableManagerUpdate_,
                 loggerAdds, ctlTime, turn, managerUpdates, setupRuns,
                 tickWithoutSolver, polyVars, pwVars, mpcVars>>

\* run() in phase 0
RunPhase0 ==
  /\ turn = "state"
  /\ phase_ = 0
  /\ phase_' = IF AutoStart(stateConfig, ctlTime) THEN 1 ELSE 0
  /\ initCall' = RunRecord(0, FALSE, FALSE, FALSE, AutoStart(stateConfig, ctlTime))
  /\ turn' = "controller"
  /\ UNCHANGED <<stateConfig, gui, solverTasks, footManagerResets, enableManagerUpdate_,
                 loggerAdds, ctlTime, managerUpdates, setupRuns, tickWithoutSolver,
                 polyVars, pwVars, mpcVars>>

\* run() in phase 1, with a variant that leaves the centroidal manager alone
RunPhase1SkipsCentroidalReset ==
  /\ turn = "state"
  /\ phase_ = 1
  /\ phase_' = 2
  /\ gui' = GuiAfterSetup(gui)
  /\ solverTasks' = solverTasks \cup InitialTasks
  /\ footManagerResets' = footManagerResets + 1
  /\ enableManagerUpdate_' = TRUE
  /\ setupRuns' = setupRuns + 1
  /\ initCall' = RunRecord(1, FALSE, TRUE, FALSE, FALSE)
  /\ turn' = "controller"
  /\ UNCHANGED <<stateConfig, loggerAdds, ctlTime, managerUpdates, tickWithoutSolver,
                 polyVars, pwVars, mpcVars>>
RunPhase1 ==
  /\ turn = "state"
  /\ phase_ = 1
  /\ phase_' = 2
  /\ gui' = GuiAfterSetup(gui)
  /\ solverTasks' = solverTasks \cup InitialTasks
  /\ footManagerResets' = footManagerResets + 1
  \* centroidalManager_->reset()
  /\ ddp_' = [null |-> FALSE, horizon_steps |-> HorizonSteps(config_),
              u_list |-> <<>>, max_iter |-> config_.ddpMaxIter]
  /\ afterReset' = TRUE
  /\ enableManagerUpdate_' = TRUE
  /\ setupRuns' = setupRuns + 1
  /\ initCall' = RunRecord(1, FALSE, TRUE, FALSE, FALSE)
  /\ turn' = "controller"
  /\ UNCHANGED <<stateConfig, loggerAdds, ctlTime, managerUpdates, tickWithoutSolver,
                 config_, mpcCom_, robotMass_, plannedZmp_, plannedForceZ_, mpcCall,
                 cfgAtLastTick, polyVars, pwVars>>

\* run() in the else-branch: not phase 0 (returned above), not phase 1
RunPhase2 ==
  /\ turn = "state"
  /\ LoggerPhase(phase_)
  /\ phase_' = 3
  /\ loggerAdds' = loggerAdds + 1
  /\ initCall' = RunRecord(phase_, TRUE, FALSE, TRUE, FALSE)
  /\ turn' = "controller"
  /\ UNCHANGED <<stateConfig, gui, solverTasks, footManagerResets, enableManagerUpdate_,
                 ctlTime, managerUpdates, setupRuns, tickWithoutSolver,
                 polyVars, pwVars, mpcVars>>

\* run()
Run == RunPhase0 \/ RunPhase1 \/ RunPhase2

\* the controller's part of a control cycle, before the FSM runs the state:
\* time advances and, if enabled, the managers are updated
ControllerUpdate ==
  /\ turn = "controller"
  /\ ctlTime < MaxTime
  /\ ctlTime' = ctlTime + 1
  /\ managerUpdates' = IF enableManagerUpdate_ THEN managerUpdates + 1 ELSE managerUpdates
  /\ tickWithoutSolver' = (tickWithoutSolver \/ (enableManagerUpdate_ /\ IsNull(ddp_)))
  /\ turn' = "state"
  /\ initCall' = [op |-> "update", phaseAtCall |-> phase_]
  /\ UNCHANGED <<phase_, stateConfig, gui, solverTasks, footManagerResets,
                 enableManagerUpdate_, loggerAdds, setupRuns, polyVars, pwVars, mpcVars>>

\* the InitialState that stands by while another object is exercised
InitialIdle ==
  /\ phase_ = 0 /\ stateConfig = [configs |-> FALSE, auto |-> FALSE, time |-> 0]
  /\ gui = {} /\ solverTasks = {} /\ footManagerResets = 0
  /\ enableManagerUpdate_ = FALSE /\ loggerAdds = 0 /\ ctlTime = 0
  /\ turn = "controller" /\ managerUpdates = 0 /\ setupRuns = 0
  /\ tickWithoutSolver = FALSE /\ initCall = NoCall

(***************************************************************************)
(* Specifications                                                          *)
(***************************************************************************)
\* the Polynomial object that stands by while another object is exercised
PolyIdle == poly = ConstantFunc(0) /\ polyCall = NoCall

\* one Polynomial of any order, coefficients and offset, and the calls on it
InitPoly == PolyInit /\ PwInit /\ MpcIdle /\ InitialIdle
NextPoly == PolyCallEval \/ PolyCallDerivative
SpecPoly == InitPoly /\ [][NextPoly]_vars

\* one PiecewiseFunc and the calls on it
InitPiecewise == PwInit /\ PolyIdle /\ MpcIdle /\ InitialIdle
NextPiecewise == ClearFuncs \/ AppendFunc \/ SetDomainLowerLimit \/ PwEval \/ PwDerivative
SpecPiecewise == InitPiecewise /\ [][NextPiecewise]_vars

\* one CentroidalManagerDdpZmp, its configuration, and the calls on it
InitMpc == MpcInit /\ PolyIdle /\ PwInit /\ InitialIdle
NextMpc == Reset \/ UpdateCom \/ RunMpc
SpecMpc == InitMpc /\ [][NextMpc]_vars

\* one InitialState after start(), the control cycles that call its run(), and
\* the presses of its Start button; the managers are configured with a horizon
\* of at least one step and not yet reset
InitInitial == InitialStart /\ MpcInit /\ HorizonSteps(config_) >= 1 /\ PolyIdle /\ PwInit
NextInitial == PressStart \/ ControllerUpdate \/ Run
SpecInitial == InitInitial /\ [][NextInitial]_vars

(***************************************************************************)
(* Helpers of the properties                                               *)
(***************************************************************************)
RECURSIVE Factorial(_)
Factorial(n) == IF n <= 0 THEN 1 ELSE n * Factorial(n - 1)

\* n (n-1) ... (n-k+1): k factors
FallingFactorial(n, k) == Factorial(n) \div Factorial(n - k)

\* the sum of f[i] over i = lo..hi
RECURSIVE SumOver(_, _, _)
SumOver(f, lo, hi) == IF lo > hi THEN 0 ELSE f[lo] + SumOver(f, lo + 1, hi)

\* the closed form of the k-th derivative of p at t; coeff[i] of the code is p.coeff[i + 1]
AnalyticDerivative(p, t, k) ==
  SumOver([i \in 0..(p.order - k) |->
             p.coeff[i + k + 1] * FallingFactorial(i + k, k) * Pow(t - p.t0, i)],
          0, p.order - k)

SetMin(S) == CHOOSE x \in S : \A y \in S : x <= y
SetMax(S) == CHOOSE x \in S : \A y \in S : y <= x

Keys(m) == {m[i].key : i \in 1..Len(m)}

\* the appendFunc calls since the last clearFuncs came with strictly increasing keys
StrictlyIncreasing(log) == \A i \in 1..(Len(log) - 1) : log[i].t < log[i + 1].t

IsQuery == pwCall.op \in {"eval", "derivative"}

\* the value the segment function f gives for the call recorded in pwCall
SegmentValue(f) ==
  IF pwCall.op = "eval" THEN PolyEval(f, pwCall.t) ELSE PolyDerivative(f, pwCall.t, pwCall.order)

(***************************************************************************)
(* Properties of PiecewiseFunc, under SpecPiecewise                        *)
(***************************************************************************)
\* C1: on a PiecewiseFunc built by appendFunc calls with strictly increasing keys,
\* operator()(t) and derivative(t, order) at a t in [lowerLimit, lastKey] are
\* answered by the segment whose key is the smallest key >= t: the i-th appended
\* segment for every t with key(i-1) < t <= key(i), so a t equal to a key k gets
\* the segment stored under k and not the following one.
C1_DispatchToOwningSegment ==
  (/\ IsQuery
   /\ appended # <<>>
   /\ StrictlyIncreasing(appended)
   /\ tLowerLimit_ <= pwCall.t
   /\ pwCall.t <= appended[Len(appended)].t)
  => /\ pwCall.outcome = "ok"
     /\ pwCall.key = SetMin({k \in Keys(funcs_) : k >= pwCall.t})
     /\ \E i \in 1..Len(appended) :
          /\ pwCall.t <= appended[i].t
          /\ (i > 1 => appended[i - 1].t < pwCall.t)
          /\ pwCall.key = appended[i].t
          /\ pwCall.func = appended[i].f
          /\ pwCall.value = SegmentValue(appended[i].f)

\* C1 witness: two segments, Constant(5) up to 1 and Constant(9) up to 3; the call at
\* the boundary t = 1 is answered by the first segment
C1_WitnessBoundary ==
  /\ appended = <<[t |-> 1, f |-> ConstantFunc(5)], [t |-> 3, f |-> ConstantFunc(9)]>>
  /\ pwCall.op = "eval" /\ pwCall.t = 1
  /\ pwCall.outcome = "ok" /\ pwCall.key = 1 /\ pwCall.value = 5

\* C2: with at least one segment, operator()(t) and derivative(t, order) fail with
\* the out-of-domain error, returning no value and evaluating no segment, for every
\* t < lowerLimit and every t > lastKey, and succeed for every t with
\* lowerLimit <= t <= lastKey; a successful call evaluates its segment at t itself.
C2_DomainCheckInclusive ==
  (IsQuery /\ funcs_ # <<>>)
  => LET inside == tLowerLimit_ <= pwCall.t /\ pwCall.t <= SetMax(Keys(funcs_))
     IN /\ inside => /\ pwCall.outcome = "ok"
                     /\ pwCall.value = SegmentValue(pwCall.func)
        /\ ~inside => /\ pwCall.outcome = "out_of_domain"
                      /\ pwCall.value = NoValue
                      /\ pwCall.func = NoValue

\* C2 witness: a call above the last key has failed, the lower limit being set
C2_WitnessAboveLastKey ==
  /\ Len(funcs_) = 2 /\ funcs_[1].key = 1 /\ funcs_[2].key = 2
  /\ tLowerLimit_ = 0
  /\ IsQuery /\ pwCall.t = 3 /\ pwCall.outcome = "out_of_domain"

\* C3: appendFunc(t, f) with t not strictly greater than every key of the map is
\* rejected with an error and leaves the map as it was.
C3_AppendRejectsNonIncreasingKey ==
  (pwCall.op = "append" /\ \E k \in Keys(pwCall.before) : pwCall.t <= k)
  => (pwCall.outcome = "error" /\ funcs_ = pwCall.before)

(***************************************************************************)
(* Properties of Polynomial, under SpecPoly                                *)
(***************************************************************************)
\* C8: for 0 < k <= Order, derivative(t, k) is the sum over i = 0..Order-k of
\* coeff[i+k] (i+k)(i+k-1)...(i+1) (t-t0)^i; with coefficients [1,2,3] and t0 = 0,
\* derivative(2, 1) = 14 and derivative(2, 2) = 6.
C8_DerivativeClosedForm ==
  (polyCall.op = "derivative" /\ 0 < polyCall.k /\ polyCall.k <= poly.order)
  => /\ polyCall.value = AnalyticDerivative(poly, polyCall.t, polyCall.k)
     /\ (poly.coeff = <<1, 2, 3>> /\ poly.t0 = 0 /\ polyCall.t = 2)
        => polyCall.value = (IF polyCall.k = 1 THEN 14 ELSE 6)

\* C8 witness: the first derivative of 1 + 2t + 3t^2 at t = 2
C8_WitnessQuadratic ==
  /\ poly = [order |-> 2, coeff |-> <<1, 2, 3>>, t0 |-> 0]
  /\ polyCall = [op |-> "derivative", t |-> 2, k |-> 1, value |-> 14]

\* C9: derivative(t, k) with k > Order is zero, whatever the coefficients, t0 and t.
C9_DerivativeAboveOrderIsZero ==
  (polyCall.op = "derivative" /\ polyCall.k > poly.order) => polyCall.value = 0

\* C9 witness: the third derivative of a quadratic with an offset
C9_WitnessThirdOfQuadratic ==
  /\ poly = [order |-> 2, coeff |-> <<1, 2, 3>>, t0 |-> 1]
  /\ polyCall.op = "derivative" /\ polyCall.k = 3 /\ polyCall.t = 2 /\ polyCall.value = 0

(***************************************************************************)
(* Properties of CentroidalManagerDdpZmp, under SpecMpc                    *)
(***************************************************************************)
\* h is dur / dt truncated toward zero (dt > 0)
IsTruncatedQuotient(h, dur, dt) ==
  IF dur >= 0
    THEN h >= 0 /\ h * dt <= dur /\ dur < (h + 1) * dt
    ELSE h <= 0 /\ (h - 1) * dt < dur /\ dur <= h * dt

IsConfiguredLength(h, cfg) == IsTruncatedQuotient(h, cfg.horizonDuration, cfg.horizonDt)

\* n copies of the static-equilibrium input of the recorded call
NominalSequence(n) ==
  [i \in 1..n |-> <<mpcCall.com[1], mpcCall.com[2], mpcCall.mass * G>>]

IsTick == mpcCall.op = "runMpc"
Solved == IsTick /\ mpcCall.outcome = "solved"

\* C4: in every runMpc() call the warm start handed to the solver has exactly
\* horizon_steps entries: the sequence of the previous solve when its length is
\* horizon_steps, else horizon_steps copies of (CoM x, CoM y, robotMass * g); the
\* solver is called with no other sequence.
C4_WarmStartMatchesHorizon ==
  Solved =>
    /\ Len(mpcCall.warm) = mpcCall.horizon
    /\ Len(mpcCall.prevU) = mpcCall.horizon => mpcCall.warm = mpcCall.prevU
    /\ Len(mpcCall.prevU) # mpcCall.horizon => mpcCall.warm = NominalSequence(mpcCall.horizon)

\* C4 witness: a tick over two steps that found no sequence of two entries and
\* built the nominal one
C4_WitnessNominalBuilt ==
  /\ Solved /\ mpcCall.horizon = 2 /\ mpcCall.prevU = <<>>
  /\ mpcCall.com = <<1, -1>>
  /\ mpcCall.warm = <<<<1, -1, 2 * G>>, <<1, -1, 2 * G>>>>

\* C5: the first runMpc() after any reset() uses the static-equilibrium warm start
\* (CoM x, CoM y, robotMass * g) for every horizon step, and finds no input sequence
\* from before the reset in the solver.
C5_FirstTickAfterResetIsNominal ==
  (Solved /\ mpcCall.first) =>
    /\ mpcCall.prevU = <<>>
    /\ Len(mpcCall.warm) = mpcCall.horizon
    /\ \A i \in 1..mpcCall.horizon :
         mpcCall.warm[i] = <<mpcCall.com[1], mpcCall.com[2], mpcCall.mass * G>>

\* C5 witness: the first tick after a reset() that followed earlier ticks, one of
\* which solved and published (1, 2, 0)
C5_WitnessResetAfterTicks ==
  /\ Solved /\ mpcCall.first /\ mpcCall.cfgBefore # <<>>
  /\ mpcCall.prevZmp = <<1, 2, 0>>
  /\ mpcCall.horizon = 2
  /\ mpcCall.warm = <<<<0, 0, 2 * G>>, <<0, 0, 2 * G>>>>

\* C7: after every runMpc() tick that solved, converged or not, plannedZmp is
\* (zmp.x, zmp.y, 0) and plannedForceZ is force_z of the solver's returned data.
C7_PlanIsFirstStepOfSolve ==
  Solved =>
    /\ plannedZmp_ = <<mpcCall.planned.zmp[1], mpcCall.planned.zmp[2], 0>>
    /\ plannedForceZ_ = mpcCall.planned.force_z
    /\ plannedZmp_[3] = 0

\* C7 witness: a solve that did not converge, published all the same
C7_WitnessNotConverged ==
  /\ Solved /\ ~mpcCall.converged
  /\ plannedZmp_ = <<-1, 3, 0>> /\ plannedForceZ_ = 9

\* C10: a runMpc() tick made when reset() has never been called fails with a
\* precondition error, calls no solver and leaves plannedZmp and plannedForceZ.
C10_TickBeforeResetFailsFast ==
  (IsTick /\ ~mpcCall.hadDdp) =>
    /\ mpcCall.outcome = "precondition_error"
    /\ ~mpcCall.solverInvoked
    /\ plannedZmp_ = mpcCall.prevZmp
    /\ plannedForceZ_ = mpcCall.prevForceZ


\* C11: a configuration whose horizon length (horizonDuration / horizonDt truncated)
\* is zero or negative is rejected when the manager is constructed or reset: no
\* solver has a step count <= 0 and no runMpc() tick runs with one.
C11_NonPositiveHorizonRejected ==
  /\ ~IsNull(ddp_) => ddp_.horizon_steps > 0
  /\ (IsTick /\ mpcCall.hadDdp) => mpcCall.horizon > 0

\* C13: a runMpc() that finds a carried-over input sequence whose length differs
\* from the horizon step count builds the nominal guess, returns without an error,
\* and writes a log record of the stale warm start.
C13_StaleWarmStartRecoveredAndLogged ==
  (IsTick /\ mpcCall.hadDdp /\ mpcCall.horizon >= 0
   /\ Len(mpcCall.prevU) # mpcCall.horizon) =>
    /\ Solved
    /\ mpcCall.warm = NominalSequence(mpcCall.horizon)
    /\ mpcCall.logged # <<>>


(***************************************************************************)
(* Further properties of PiecewiseFunc, under SpecPiecewise                *)
(***************************************************************************)
\* C12: after clearFuncs(), from any state, there is no segment,
\* domainLowerLimit() is lowest() and domainUpperLimit() is max(); with at least one
\* segment domainUpperLimit() is the largest key, and domainLowerLimit() is the
\* value last given to setDomainLowerLimit, or the default when none was given
\* since the construction or the last clearFuncs().
C12_DomainLimits ==
  [][/\ pwCall'.op = "clear"
        => (funcs_' = <<>> /\ DomainLowerLimit' = Lowest /\ DomainUpperLimit' = DblMax)
     /\ pwCall'.op = "setDomainLowerLimit" => DomainLowerLimit' = pwCall'.t
     /\ pwCall'.op \in {"append", "eval", "derivative"}
        => DomainLowerLimit' = DomainLowerLimit
     /\ funcs_' # <<>> => DomainUpperLimit' = SetMax(Keys(funcs_'))
     /\ (funcs_ = <<>> /\ pwCall.op \in {"none", "clear"}) => DomainLowerLimit = Lowest
    ]_vars

\* C12 witness: clearFuncs() on two segments with the lower limit set
C12_WitnessClearedTwoSegments ==
  /\ pwCall.op = "clear" /\ Len(pwCall.before) = 2 /\ pwCall.lowerBefore = 1
  /\ funcs_ = <<>> /\ DomainLowerLimit = Lowest /\ DomainUpperLimit = DblMax

\* C15: in every state that clearFuncs, appendFunc and setDomainLowerLimit reach, a
\* call of operator()(t) or derivative(t, order) fails with the out-of-domain error
\* or evaluates a segment of the map; it reads no key of an empty map and no
\* element at end().
C15_QueryNeverUndefined ==
  IsQuery =>
    /\ funcs_ # <<>>
    /\ pwCall.outcome \in {"out_of_domain", "ok"}
    /\ pwCall.outcome = "ok"
         => \E i \in 1..Len(funcs_) : funcs_[i] = [key |-> pwCall.key, func |-> pwCall.func]

\* C16: clearFuncs is the only operation that removes or replaces a segment:
\* appendFunc, setDomainLowerLimit, operator() and derivative keep every (key,
\* function) pair, so the number of segments does not decrease; appendFunc keeps the
\* lower limit and setDomainLowerLimit keeps the map.
C16_OnlyClearShrinks ==
  [][pwCall'.op # "clear" =>
       /\ \A i \in 1..Len(funcs_) : \E j \in 1..Len(funcs_') : funcs_'[j] = funcs_[i]
       /\ Len(funcs_') >= Len(funcs_)
       /\ pwCall'.op = "append" => tLowerLimit_' = tLowerLimit_
       /\ pwCall'.op \in {"setDomainLowerLimit", "eval", "derivative"} => funcs_' = funcs_
    ]_vars

\* C16 witness: appendFunc with the key of a segment of the map, which is kept
C16_WitnessAppendOnExistingKey ==
  /\ pwCall.op = "append" /\ Len(pwCall.before) = 1
  /\ pwCall.before[1].key = pwCall.t /\ pwCall.before[1].func # pwCall.f
  /\ funcs_ = pwCall.before


(***************************************************************************)
(* Further properties of Polynomial, under SpecPoly                        *)
(***************************************************************************)
\* the sum over i = 0..Order of coeff[i] (t - t0)^i
AnalyticValue(p, t) ==
  SumOver([i \in 0..p.order |-> p.coeff[i + 1] * Pow(t - p.t0, i)], 0, p.order)

\* C14: derivative(t, 0) returns the value of operator()(t), the sum over
\* i = 0..Order of coeff[i] (t-t0)^i (17 for [1,2,3], t0 = 0, t = 2); a Constant
\* (Order 0) gives its stored value for every t.
C14_ZerothDerivativeIsValue ==
  /\ (polyCall.op = "derivative" /\ polyCall.k = 0)
       => /\ polyCall.value = PolyEval(poly, polyCall.t)
          /\ polyCall.value = AnalyticValue(poly, polyCall.t)
  /\ polyCall.op = "eval"
       => /\ polyCall.value = AnalyticValue(poly, polyCall.t)
          /\ polyCall.value = PolyDerivative(poly, polyCall.t, 0)
          /\ poly.order = 0 => polyCall.value = poly.coeff[1]
          /\ (poly.coeff = <<1, 2, 3>> /\ poly.t0 = 0 /\ polyCall.t = 2) => polyCall.value = 17

\* C14 witness: the zeroth derivative of 1 + 2t + 3t^2 at t = 2
C14_WitnessZerothOfQuadratic ==
  /\ poly = [order |-> 2, coeff |-> <<1, 2, 3>>, t0 |-> 0]
  /\ polyCall = [op |-> "derivative", t |-> 2, k |-> 0, value |-> 17]


\* a step of run() that executed the phase-1 block
IsSetupCall(c) == c.op = "run" /\ c.didSetup

\* C17: the manager update becomes enabled only in the run() call whose phase-1
\* block has reset the foot manager and the centroidal manager; whenever it is
\* enabled the centroidal manager holds a solver built by reset(), and no
\* enabled manager update ever finds the centroidal manager without one.
C17_UpdateEnabledOnlyAfterResets ==
  [][/\ enableManagerUpdate_' => (~IsNull(ddp_') /\ footManagerResets' >= 1)
     /\ (~enableManagerUpdate_ /\ enableManagerUpdate_') =>
          /\ IsSetupCall(initCall')
          /\ footManagerResets' = footManagerResets + 1
          /\ ~IsNull(ddp_')
          /\ ddp_'.horizon_steps = HorizonSteps(config_')
          /\ afterReset'
     /\ ~tickWithoutSolver']_vars
\* the update is enabled and a control cycle has updated the managers
C17_WitnessEnabledUpdateRan ==
  enableManagerUpdate_ /\ managerUpdates >= 1 /\ ~IsNull(ddp_) /\ footManagerResets = 1


\* a step of run()
IsRunCall(c) == c.op = "run"

\* C18: the managers' logger entries are added only in a run() call made after
\* the call that executed the phase-1 block, with at least one control cycle
\* that updated the managers in between; run() returns true exactly in a call
\* that adds the logger entries, and false in every call made in phase 0 or 1.
C18_LoggerAfterEnabledCycle ==
  /\ loggerAdds >= 1 => (setupRuns >= 1 /\ managerUpdates >= 1)
  /\ IsRunCall(initCall) =>
       /\ initCall.didLogger =>
            /\ ~initCall.didSetup
            /\ initCall.setupsBefore >= 1
            /\ initCall.updatesBefore >= 1
            /\ enableManagerUpdate_
       /\ initCall.ret <=> initCall.didLogger
       /\ initCall.phaseAtCall \in {0, 1} => (~initCall.ret /\ ~initCall.didLogger)
\* the run() call right after the setup call: one enabled cycle lies between
C18_WitnessLoggerAfterOneCycle ==
  /\ IsRunCall(initCall) /\ initCall.didLogger /\ initCall.ret
  /\ initCall.phaseAtCall = 2 /\ initCall.updatesBefore = 1 /\ loggerAdds = 1


\* C19: however run() calls and Start-button callbacks interleave after one
\* start(), the phase-1 block runs at most once (so each manager is reset by it
\* at most once), and once phase_ is 2 or 3 it never is 1 again: the block has
\* removed the Start button, the only way back to phase 1.
C19_SetupAtMostOnce ==
  [][/\ phase_ \in {2, 3} => phase_' \in {2, 3}
     /\ setupRuns' <= 1
     /\ footManagerResets' <= 1
     /\ phase_' \in {2, 3} => ("Start" \notin gui' /\ setupRuns' = 1)]_vars
\* the button was pressed, the block ran once, and run() went on being called
C19_WitnessRunsAfterSetup ==
  /\ phase_ = 3 /\ setupRuns = 1 /\ "Start" \notin gui /\ loggerAdds = 2
  /\ InitialTasks \subseteq solverTasks


\* the phase-0 block of run() made the auto start
IsAutoStart(c) == c.op = "run" /\ c.phaseAtCall = 0 /\ c.autoStarted

\* C20: however often run() is called after one start(), also after it has
\* returned true, the managers' logger entries are registered at most once;
\* and phase_ goes from 0 to 1 only by a press of the Start button or by a run()
\* call with autoStartTime configured and ctl().t() strictly greater than it.
C20_LoggerRegisteredAtMostOnce ==
  [][/\ loggerAdds' <= 1
     /\ (phase_ = 0 /\ phase_' = 1) =>
          \/ initCall'.op = "press"
          \/ /\ IsAutoStart(initCall')
             /\ stateConfig.configs /\ stateConfig.auto /\ ctlTime > stateConfig.time]_vars

====
